---- MODULE Spec2Model ----
(***************************************************************************)
(* The DirPlayer polyfill core (polyfill/src/core.tsx, kept here as        *)
(* src/unnamed/part_004): the negotiation over the attributes of <html>,   *)
(* the deferred initialisation, the sweep of the document and the          *)
(* mutation observer.                                                      *)
(*                                                                         *)
(* Four specifications share the same translation of the code:             *)
(*   Spec    the browser's scheduling: every script world of a page runs   *)
(*           on the page's one event loop, so a call of initPolyfill, a    *)
(*           timer task, the dispatch of DOMContentLoaded and an observer  *)
(*           callback each run to completion;                              *)
(*   SpecRW  the scheduling spec.md section 5 describes: the contexts      *)
(*           interleave at every read and write of a shared attribute;     *)
(*   SpecDom the scheduling of Spec over the richer pages and scripts the  *)
(*           replacement needs, each context registering once, with a      *)
(*           renderer that may throw;                                      *)
(*   SpecFn  the pure functions applied to inputs drawn from bounded sets. *)
(***************************************************************************)
EXTENDS Integers, Sequences, FiniteSets, TLC

\* ------------------------------------------------------------------ bounds

\* Script worlds (isolated contexts) sharing the document.
NumContexts == 2
\* Calls of initPolyfill over the life of the document.
MaxCalls == 2

Contexts == 1..NumContexts

\* ------------------------------------------------------- version strings

(* A version string is the sequence of its '.'-separated components, as    *)
(* String.split('.') returns them.  A component is a decimal number, the   *)
(* empty string (EmptyTok: Number('') is 0), text that is no number        *)
(* (NaNTok: Number('x') is NaN) or the exponent numeral '1e1' (ExpTok:     *)
(* Number('1e1') is 10).  The empty string '' splits to <<''>>.            *)
EmptyTok == -2
NaNTok == -1
ExpTok == -3
NaN == -1

EmptyString == <<EmptyTok>>

\* getAttribute of an absent version attribute.
Null == <<>>
\* getAttribute of an absent attribute whose value is modelled as a string.
NullStr == "(null)"

\* JavaScript truthiness of string | null: null and '' are falsy.
Truthy(str) == str # Null /\ str # EmptyString
TruthyStr(str) == str # NullStr /\ str # ""

\* Number(component)
ToNumber(tok) ==
  IF tok = EmptyTok THEN 0
  ELSE IF tok = NaNTok THEN NaN
  ELSE IF tok = ExpTok THEN 10
  ELSE tok

\* parts[i] || 0 : undefined (past the end), NaN and 0 all give 0.
PartOrZero(parts, i) ==
  IF i > Len(parts) THEN 0
  ELSE IF ToNumber(parts[i]) = NaN THEN 0 ELSE ToNumber(parts[i])

Max(a, b) == IF a >= b THEN a ELSE b

RECURSIVE CompareFrom(_, _, _)
CompareFrom(partsA, partsB, i) ==
  IF i > Max(Len(partsA), Len(partsB)) THEN 0
  ELSE IF PartOrZero(partsA, i) > PartOrZero(partsB, i) THEN 1
  ELSE IF PartOrZero(partsA, i) < PartOrZero(partsB, i) THEN -1
  ELSE CompareFrom(partsA, partsB, i + 1)

compareSemver(a, b) == CompareFrom(a, b, 1)

\* The version strings the callers pass: '', '1', '1.0', '2'.
Versions == { EmptyString, <<1>>, <<1, 0>>, <<2>> }

Sources == { "extension", "polyfill" }

\* --------------------------------------------------------------- the DOM

(* Node 0 is the document element.  Nodes 1..NumNodes are the elements the *)
(* page's markup and scripts bring; every mount element the code creates   *)
(* gets the next free id.  kids[n] is the sequence of n's child elements;  *)
(* a detached node keeps its own children.                                 *)
Root == 0
NoNode == -1
NumNodes == 12

MarkupNodes == 1..NumNodes

ReservedClassId == "clsid:166b1bca-3f9c-11cf-8075-444553540000"

\* The strings of the pages: toLowerCase and endsWith('.dcr') by table.
Lower(str) ==
  CASE str = "SRC" -> "src"
    [] str = "SW1" -> "sw1"
    [] str = "CLSID:166B1BCA-3F9C-11CF-8075-444553540000" -> ReservedClassId
    [] OTHER -> str

EndsWithDcr(str) == str \in { "movie.dcr", "intro.dcr" }

NoParams == <<>>
NoSw == <<>>

(* The elements: tag, the src, width and height properties (the empty      *)
(* string when the attribute is absent), classid (NullStr when absent),    *)
(* the sw1.. attributes of an embed in index order (NullStr: absent), and  *)
(* the <param> children of an object as (name, value) pairs.               *)
Element(tag, src, width, height, classid, sw, params) ==
  [tag |-> tag, src |-> src, width |-> width, height |-> height,
   classid |-> classid, sw |-> sw, params |-> params]

Param(name, value) == [name |-> name, value |-> value]

Markup(n) ==
  CASE n = 1 -> Element("EMBED", "movie.dcr", "320", "240", NullStr,
                        <<"a", "b">>, NoParams)
    [] n = 2 -> Element("OBJECT", "", "640", "480",
                        "CLSID:166B1BCA-3F9C-11CF-8075-444553540000", NoSw,
                        <<Param("SRC", "intro.dcr"), Param("sw1", "x")>>)
    [] n = 3 -> Element("EMBED", "intro.dcr", "100", "100", NullStr,
                        NoSw, NoParams)
    [] n = 4 -> Element("EMBED", "clip.swf", "10", "10", NullStr,
                        NoSw, NoParams)
    [] n = 6 -> Element("OBJECT", "", "200", "150", ReservedClassId,
                        NoSw, NoParams)
    [] n = 7 -> Element("EMBED", "movie.dcr", "50", "50", NullStr,
                        NoSw, NoParams)
    [] n = 9 -> Element("EMBED", "intro.dcr", "60", "40", NullStr,
                        NoSw, NoParams)
    [] n = 10 -> Element("OBJECT", "", "300", "200", NullStr, NoSw,
                         <<Param("src", "movie.dcr"), Param("sw1", "p"),
                           Param("sw2", "q")>>)
    [] n = 11 -> Element("OBJECT", "", "400", "300", NullStr, NoSw, NoParams)
    [] n = 12 -> Element("OBJECT", "", "30", "20", NullStr, NoSw,
                         <<Param("src", "intro.dcr")>>)
    [] OTHER -> Element("DIV", "", "", "", NullStr, NoSw, NoParams)

MountElement == Element("DIV", "", "", "", NullStr, NoSw, NoParams)

\* The subtrees the markup nodes come with: embed 3 is the child of object
\* 2, embed 7 of object 6 (which has no src param), embed 9 of div 8, and
\* object 12 of object 11 (which has no classid and no <param> of its own).
MarkupKids(n) ==
  CASE n = 2 -> <<3>>
    [] n = 6 -> <<7>>
    [] n = 8 -> <<9>>
    [] n = 11 -> <<12>>
    [] OTHER -> <<>>

\* The nodes a page or a script puts into the document.
TopNodes == { 1, 2, 4, 5 }
\* The same, for the pages and scripts of SpecDom.
DomTopNodes == TopNodes \cup { 6, 8, 10, 11 }

Range(seq) == { seq[i] : i \in 1..Len(seq) }

\* Tag and properties of a node of tree k (every node past NumNodes is a mount).
Desc(n) == IF n \in MarkupNodes THEN Markup(n) ELSE MountElement

parentElement(k, n) ==
  IF \E p \in DOMAIN k : n \in Range(k[p])
  THEN CHOOSE p \in DOMAIN k : n \in Range(k[p])
  ELSE NoNode

RECURSIVE InDocumentFrom(_, _, _)
InDocumentFrom(k, n, fuel) ==
  IF n = Root THEN TRUE
  ELSE IF n = NoNode \/ fuel = 0 THEN FALSE
  ELSE InDocumentFrom(k, parentElement(k, n), fuel - 1)

\* Node.isConnected
InDocument(k, n) == InDocumentFrom(k, n, Cardinality(DOMAIN k))

\* The descendants of n in tree order (n itself excluded).
RECURSIVE Descendants(_, _)
RECURSIVE DescendantsOfAll(_, _)
Descendants(k, n) == DescendantsOfAll(k, k[n])
DescendantsOfAll(k, seq) ==
  IF seq = <<>> THEN <<>>
  ELSE <<Head(seq)>> \o Descendants(k, Head(seq)) \o DescendantsOfAll(k, Tail(seq))

SelectTag(seq, tag) == SelectSeq(seq, LAMBDA n : Desc(n).tag = tag)

\* Array.from(root.getElementsByTagName(tag))
getElementsByTagName(k, n, tag) == SelectTag(Descendants(k, n), tag)

\* ChildNode.replaceWith: nothing happens to a node that has no parent.
replaceWith(k, old, new) ==
  LET p == parentElement(k, old) IN
  IF p = NoNode THEN k
  ELSE [k EXCEPT ![p] = [i \in 1..Len(k[p]) |-> IF k[p][i] = old THEN new ELSE k[p][i]]]

\* -------------------------------------------------- classification

\* for (const k in obj) if (k.toLowerCase() === key.toLowerCase()) return obj[k]
\* over a record kept as its (name, value) pairs in insertion order; a null
\* value and no match (undefined) both read as NullStr.
RECURSIVE getCaseInsensitiveValue(_, _)
getCaseInsensitiveValue(obj, key) ==
  IF obj = <<>> THEN NullStr
  ELSE IF Lower(Head(obj).name) = Lower(key) THEN Head(obj).value
  ELSE getCaseInsensitiveValue(Tail(obj), key)

\* obj[key]: the exact property name.
RECURSIVE Lookup(_, _)
Lookup(obj, key) ==
  IF obj = <<>> THEN NullStr
  ELSE IF Head(obj).name = key THEN Head(obj).value
  ELSE Lookup(Tail(obj), key)

\* acc[name] = value: a name already present keeps its place and takes the
\* new value.
Assign(obj, name, value) ==
  IF \E i \in 1..Len(obj) : obj[i].name = name
  THEN [i \in 1..Len(obj) |->
          IF obj[i].name = name THEN Param(name, value) ELSE obj[i]]
  ELSE Append(obj, Param(name, value))

RECURSIVE ReduceParams(_, _)
ReduceParams(tags, acc) ==
  IF tags = <<>> THEN acc
  ELSE ReduceParams(Tail(tags), Assign(acc, Head(tags).name, Head(tags).value))

\* object.getElementsByTagName('param'): the object's own <param> children,
\* then those of the objects below it.
RECURSIVE ParamsOfAll(_)
ParamsOfAll(nodes) ==
  IF nodes = <<>> THEN <<>>
  ELSE Desc(Head(nodes)).params \o ParamsOfAll(Tail(nodes))

paramTags(k, object) ==
  Desc(object).params \o ParamsOfAll(getElementsByTagName(k, object, "OBJECT"))

checkDirEmbed(element) == EndsWithDcr(Desc(element).src)

checkDirObject(k, object) ==
  LET params == ReduceParams(paramTags(k, object), <<>>)
      src == getCaseInsensitiveValue(params, "src")
      classId == Desc(object).classid
  IN [isDirObject |->
        \/ (classId # NullStr /\ Lower(classId) = Lower(ReservedClassId))
        \/ (src # NullStr /\ EndsWithDcr(src)),
      params |-> params]

\* ------------------------------------------------------ replacement

\* The cap of the loops over sw1, sw2, ...
MaxSw == 30

SwName(i) == "sw" \o ToString(i)

\* element.getAttribute(`sw${i}`), sw being the element's sw1.. attributes
SwAttribute(sw, i) == IF i <= Len(sw) THEN sw[i] ELSE NullStr

\* Mutant: an absent attribute is skipped and the loop goes on.
RECURSIVE EmbedParamsFrom_SkipGaps(_, _, _)
EmbedParamsFrom_SkipGaps(sw, i, acc) ==
  IF i > MaxSw THEN acc
  ELSE EmbedParamsFrom_SkipGaps(sw, i + 1,
         IF SwAttribute(sw, i) = NullStr THEN acc
         ELSE Append(acc, Param(SwName(i), SwAttribute(sw, i))))

\* for (i = 1; i <= 30; i++) { v = get(i); if (v === null) break; ext[..] = v }
\* The mapping is kept as its pairs in the order they were written.
RECURSIVE EmbedParamsFrom(_, _, _)
EmbedParamsFrom(sw, i, acc) ==
  IF i > MaxSw \/ SwAttribute(sw, i) = NullStr THEN acc
  ELSE EmbedParamsFrom(sw, i + 1,
                       Append(acc, Param(SwName(i), SwAttribute(sw, i))))

RECURSIVE ObjectParamsFrom(_, _, _)
ObjectParamsFrom(params, i, acc) ==
  IF i > MaxSw \/ Lookup(params, SwName(i)) = NullStr THEN acc
  ELSE ObjectParamsFrom(params, i + 1,
                        Append(acc, Param(SwName(i), Lookup(params, SwName(i)))))

\* document.createElement('div'): the next free node id.
NewElement(s) == NumNodes + Len(s.replaced) + 1

\* ReactDOM.createRoot(mount).render(...): one renderer on the mount element.
\* connected records whether the mount element was in the document then.
\* The renderer is not part of this code: for the movies in faulty the call
\* throws, and nothing in this file catches it.
renderPlayer(s, ctx, mount, width, height, src, externalParams) ==
  IF src \in s.faulty
  THEN [s EXCEPT !.thrown = TRUE,
                 !.uncaught = Append(@, [ctx |-> ctx, mount |-> mount, src |-> src])]
  ELSE [s EXCEPT !.mounts = Append(@,
          [ctx |-> ctx, mount |-> mount, width |-> width, height |-> height,
           src |-> src, externalParams |-> externalParams,
           connected |-> InDocument(s.kids, mount)])]

\* The replaced log (history): the element the replacement was called for,
\* the node it detached and the mount element put there; whether the
\* detached node was in the document, whether initialized was set and
\* whether an observer was running when the replacement was made; the
\* element's parent then (NoNode: none), whether that parent was an object
\* checkDirObject accepts, and whether the element was its only child.
Replaced(s, element, detached, mount) ==
  LET parent == parentElement(s.kids, element)
      inObject == parent \in MarkupNodes /\ Desc(parent).tag = "OBJECT"
  IN [s EXCEPT !.replaced = Append(@,
        [element |-> element, detached |-> detached, mount |-> mount,
         wasConnected |-> InDocument(s.kids, detached),
         initialized |-> s.root.initialized,
         watching |-> (s.observers # <<>>),
         parent |-> parent,
         parentEligible |-> inObject /\ checkDirObject(s.kids, parent).isDirObject,
         soleChild |-> inObject /\ s.kids[parent] = <<element>>
                                /\ Desc(parent).params = <<>>])]

\* Mutant: the embed itself is replaced, with its own width and height,
\* whatever its parent is.
replaceDirEmbed_IgnoreParent(s, ctx, element) ==
  LET e == Desc(element)
      src == e.src
      externalParams == EmbedParamsFrom(e.sw, 1, <<>>)
      newElement == NewElement(s)
      created == [s EXCEPT !.kids = @ @@ (newElement :> <<>>)]
      swapped == [Replaced(created, element, element, newElement)
                    EXCEPT !.kids = replaceWith(created.kids, element, newElement)]
  IN renderPlayer(swapped, ctx, newElement, e.width, e.height, src, externalParams)

replaceDirEmbed(s, ctx, element) ==
  LET e == Desc(element)
      \* data-src is on no element of these pages: getAttribute gives null
      dataSrc == NullStr
      src == IF e.src # "" THEN e.src
             ELSE IF TruthyStr(dataSrc) THEN dataSrc ELSE ""
      externalParams == EmbedParamsFrom(e.sw, 1, <<>>)
      newElement == NewElement(s)
      parent == parentElement(s.kids, element)
      inObject == parent # NoNode /\ parent # Root /\ Desc(parent).tag = "OBJECT"
      width == IF inObject /\ Desc(parent).width # "" THEN Desc(parent).width ELSE e.width
      height == IF inObject /\ Desc(parent).height # "" THEN Desc(parent).height ELSE e.height
      target == IF inObject THEN parent ELSE element
      created == [s EXCEPT !.kids = @ @@ (newElement :> <<>>)]
      swapped == [Replaced(created, element, target, newElement)
                    EXCEPT !.kids = replaceWith(created.kids, target, newElement)]
  IN renderPlayer(swapped, ctx, newElement, width, height, src, externalParams)

\* Mutant: the object is replaced whether or not its params give a src.
replaceDirObject_NoSrcCheck(s, ctx, element, params) ==
  LET src == getCaseInsensitiveValue(params, "src")
      newElement == NewElement(s)
      created == [s EXCEPT !.kids = @ @@ (newElement :> <<>>)]
      swapped == [Replaced(created, element, element, newElement)
                    EXCEPT !.kids = replaceWith(created.kids, element, newElement)]
  IN renderPlayer(swapped, ctx, newElement, Desc(element).width,
                  Desc(element).height, IF src = NullStr THEN "" ELSE src,
                  ObjectParamsFrom(params, 1, <<>>))

replaceDirObject(s, ctx, element, params) ==
  LET src == getCaseInsensitiveValue(params, "src")
      externalParams == ObjectParamsFrom(params, 1, <<>>)
      newElement == NewElement(s)
      created == [s EXCEPT !.kids = @ @@ (newElement :> <<>>)]
      swapped == [Replaced(created, element, element, newElement)
                    EXCEPT !.kids = replaceWith(created.kids, element, newElement)]
  IN IF ~TruthyStr(src)
     THEN [s EXCEPT !.errors = Append(@, element)]
     ELSE renderPlayer(swapped, ctx, newElement, Desc(element).width,
                       Desc(element).height, src, externalParams)

RECURSIVE SweepObjects(_, _, _)
SweepObjects(s, ctx, objects) ==
  IF objects = <<>> \/ s.thrown THEN s
  ELSE LET c == checkDirObject(s.kids, Head(objects)) IN
       SweepObjects(IF c.isDirObject
                    THEN replaceDirObject(s, ctx, Head(objects), c.params)
                    ELSE s,
                    ctx, Tail(objects))

RECURSIVE SweepEmbeds(_, _, _)
SweepEmbeds(s, ctx, embeds) ==
  IF embeds = <<>> \/ s.thrown THEN s
  ELSE SweepEmbeds(IF checkDirEmbed(Head(embeds))
                   THEN replaceDirEmbed(s, ctx, Head(embeds))
                   ELSE s,
                   ctx, Tail(embeds))

replaceDirPlayerElements(s, ctx) ==
  LET afterObjects == SweepObjects(s, ctx, getElementsByTagName(s.kids, Root, "OBJECT"))
  IN IF afterObjects.thrown THEN afterObjects
     ELSE SweepEmbeds(afterObjects, ctx,
                      getElementsByTagName(afterObjects.kids, Root, "EMBED"))

\* ------------------------------------------------- paramsArrayToRecord

\* String.trim() on the keys used here: '', ' ', 'a', ' a', 'b'.
Trim(str) ==
  CASE str = " " -> ""
    [] str = " a" -> "a"
    [] OTHER -> str

\* record[key] = value, a record being the function from its keys.
Put(record, key, value) ==
  [k \in DOMAIN record \cup {key} |-> IF k = key THEN value ELSE record[k]]

\* Mutant: a key already in the record keeps its first value.
RECURSIVE RecordFrom_FirstWins(_, _)
RecordFrom_FirstWins(params, record) ==
  IF params = <<>> THEN record
  ELSE RecordFrom_FirstWins(Tail(params),
         IF Trim(Head(params).key) # "" /\ Trim(Head(params).key) \notin DOMAIN record
         THEN Put(record, Trim(Head(params).key), Head(params).value)
         ELSE record)

\* for (const p of params) if (p.key.trim()) record[p.key.trim()] = p.value
RECURSIVE RecordFrom(_, _)
RecordFrom(params, record) ==
  IF params = <<>> THEN record
  ELSE RecordFrom(Tail(params),
                  IF Trim(Head(params).key) # ""
                  THEN Put(record, Trim(Head(params).key), Head(params).value)
                  ELSE record)

paramsArrayToRecord(params) == RecordFrom(params, <<>>)

\* ----------------------------------------------------------- the state

VARIABLES
  root,        \* the three data-dirplayer-* attributes of <html>
  readyState,  \* document.readyState: "loading" or "interactive"
  dclFired,    \* DOMContentLoaded has been dispatched
  listeners,   \* the DOMContentLoaded listeners ({ once: true }), in order
  timers,      \* the setTimeout(doInit, 0) tasks, in order
  kids,        \* the tree: node -> its child elements
  fresh,       \* markup nodes no script or parser has inserted yet
  inserted,    \* history: the nodes inserted since the page was first seen
  observers,   \* the MutationObservers: context and undelivered records
  mounts,      \* the renderPlayer calls made so far
  replaced,    \* history: the replacements made so far
  errors,      \* history: the objects console.error reported
  calls,       \* history: the initPolyfill calls, with their outcome
  inits,       \* history: the calls whose confirmation set initialized
  writer,      \* history: the calls that last wrote version and source
  fired,       \* history: the calls whose confirmation has run, in order
  frames,      \* SpecRW only: the call each context is in the middle of
  preempted,   \* SpecRW only: a call was interleaved with another context
  faulty,      \* the movies (src) for which the renderer throws
  edits,       \* SpecWatch only: attribute, text and removal changes made
  uncaught,    \* history: the renderPlayer calls that threw
  arg,         \* SpecFn only: the function to apply and its arguments
  result       \* SpecFn only: what the function returned

vars == <<root, readyState, dclFired, listeners, timers, kids, fresh,
          inserted, observers, mounts, replaced, errors, calls, inits, writer,
          fired, frames, preempted, faulty, edits, uncaught, arg, result>>

\* The state the code reads and writes, as one record.  thrown: an
\* exception is on its way up the stack of the task that is running.
Cur ==
  [root |-> root, readyState |-> readyState, listeners |-> listeners,
   timers |-> timers, kids |-> kids, observers |-> observers,
   mounts |-> mounts, replaced |-> replaced, errors |-> errors,
   calls |-> calls, inits |-> inits, writer |-> writer, fired |-> fired,
   faulty |-> faulty, uncaught |-> uncaught, thrown |-> FALSE]

Commit(s) ==
  /\ root' = s.root
  /\ readyState' = s.readyState
  /\ listeners' = s.listeners
  /\ timers' = s.timers
  /\ kids' = s.kids
  /\ observers' = s.observers
  /\ mounts' = s.mounts
  /\ replaced' = s.replaced
  /\ errors' = s.errors
  /\ calls' = s.calls
  /\ inits' = s.inits
  /\ writer' = s.writer
  /\ fired' = s.fired
  /\ uncaught' = s.uncaught
  /\ UNCHANGED <<faulty, edits, arg, result>>

\* --------------------------------------------------- the mutation observer

\* Mutant: the callback leaves objects alone.
ObserveNode_EmbedsOnly(s, ctx, node) ==
  IF Desc(node).tag = "EMBED" /\ checkDirEmbed(node)
  THEN replaceDirEmbed(s, ctx, node)
  ELSE s

\* The callback's body for one added node.
ObserveNode(s, ctx, node) ==
  IF Desc(node).tag = "EMBED" /\ checkDirEmbed(node)
  THEN replaceDirEmbed(s, ctx, node)
  ELSE IF Desc(node).tag = "OBJECT"
  THEN LET c == checkDirObject(s.kids, node) IN
       IF c.isDirObject THEN replaceDirObject(s, ctx, node, c.params) ELSE s
  ELSE s

RECURSIVE ObserveNodes(_, _, _)
ObserveNodes(s, ctx, nodes) ==
  IF nodes = <<>> \/ s.thrown THEN s
  ELSE ObserveNodes(ObserveNode(s, ctx, Head(nodes)), ctx, Tail(nodes))

\* The callback: for (mutation of mutations) for (node of mutation.addedNodes)
RECURSIVE ObserverCallback(_, _, _)
ObserverCallback(s, ctx, mutations) ==
  IF mutations = <<>> \/ s.thrown THEN s
  ELSE ObserverCallback(ObserveNodes(s, ctx, Head(mutations).addedNodes), ctx,
                        Tail(mutations))

\* A MutationRecord: its type, its target and the nodes added and removed.
MutationRecord(type, target, addedNodes, removedNodes) ==
  [type |-> type, target |-> target, addedNodes |-> addedNodes,
   removedNodes |-> removedNodes]

\* Mutant: the observer is registered for every type of mutation.
Observes_Everything(type) == TRUE

\* The options of observe(): { childList: true, subtree: true }, neither
\* attributes nor characterData.
Observes(type) == type = "childList"

\* The browser queues record, of a change in the document, for every
\* observer whose options cover its type.
Notify(obs, record) ==
  IF Observes(record.type)
  THEN [i \in 1..Len(obs) |-> [obs[i] EXCEPT !.records = Append(@, record)]]
  ELSE obs

\* new MutationObserver(...).observe(document.documentElement, ...)
Observe(s, ctx) ==
  [s EXCEPT !.observers = Append(@, [ctx |-> ctx, records |-> <<>>])]

\* ---------------------------------------------------------- performInit

\* Mutant: the comparison is inverted.
SourceDiffers_Inverted(s, source) == s.root.source = source

\* Mutant: the confirmation does not look at the source.
SourceDiffers_Dropped(s, source) == FALSE

\* root.getAttribute(ATTR_SOURCE) !== source
SourceDiffers(s, source) == s.root.source # source

\* Mutant: the confirmation does not look at initialized.
InitializedAtRecheck_Dropped(s) == FALSE

\* if (root.hasAttribute(ATTR_INITIALIZED)) return;   in performInit
InitializedAtRecheck(s) == s.root.initialized

\* History: the confirmation of call id starts.
Confirming(s, id) == [s EXCEPT !.fired = Append(@, id)]

\* root.setAttribute(ATTR_INITIALIZED, 'true')
SetInitialized(s, id) ==
  [s EXCEPT !.root.initialized = TRUE, !.inits = Append(@, id)]

\* The observer is created after the sweep: not when the sweep threw.
ObserveAfter(swept, ctx) == IF swept.thrown THEN swept ELSE Observe(swept, ctx)

\* Mutant: the observer is started whatever the recheck says.
performInitBody_ObserveAlways(s, id) ==
  IF SourceDiffers(s, s.calls[id].source) \/ InitializedAtRecheck(s)
  THEN Observe(s, s.calls[id].ctx)
  ELSE ObserveAfter(replaceDirPlayerElements(SetInitialized(s, id), s.calls[id].ctx),
                    s.calls[id].ctx)

performInitBody(s, id) ==
  IF SourceDiffers(s, s.calls[id].source) THEN s
  ELSE IF InitializedAtRecheck(s) THEN s
  ELSE ObserveAfter(replaceDirPlayerElements(SetInitialized(s, id), s.calls[id].ctx),
                    s.calls[id].ctx)

performInit(s, id) == performInitBody(Confirming(s, id), id)

\* ---------------------------------------------------------- initPolyfill

\* Mutant: an equal version wins whatever the candidate's source.
NewWins_AnyTie(version, source, existingVersion, existingSource) ==
  IF Truthy(existingVersion) /\ TruthyStr(existingSource)
  THEN compareSemver(version, existingVersion) >= 0
  ELSE TRUE

\* Mutant: every candidate wins.
NewWins_Always(version, source, existingVersion, existingSource) == TRUE

\* if (existingVersion && existingSource) { newWins = ... } : whether the
\* call goes on to write its version and source.
NewWins(version, source, existingVersion, existingSource) ==
  IF Truthy(existingVersion) /\ TruthyStr(existingSource)
  THEN LET cmp == compareSemver(version, existingVersion) IN
       cmp > 0 \/ (cmp = 0 /\ source = "polyfill")
  ELSE TRUE

SetVersion(s, id) ==
  [s EXCEPT !.root.version = s.calls[id].version, !.writer.version = id]

\* Mutant: the source attribute is not written.
SetSource_Dropped(s, id) == s

SetSource(s, id) ==
  [s EXCEPT !.root.source = s.calls[id].source, !.writer.source = id]

\* Mutant: with the document loaded, doInit is called at once.
Schedule_Synchronous(s, id) ==
  IF s.readyState = "loading"
  THEN [s EXCEPT !.listeners = Append(@, id)]
  ELSE performInit(s, id)

\* document.readyState === 'loading' ? addEventListener(...) : setTimeout(doInit, 0)
Schedule(s, id) ==
  IF s.readyState = "loading"
  THEN [s EXCEPT !.listeners = Append(@, id)]
  ELSE [s EXCEPT !.timers = Append(@, id)]

Outcome(s, id, outcome) == [s EXCEPT !.calls[id].outcome = outcome]

\* Mutant: initPolyfill does not look at initialized.
AlreadyInitialized_Dropped(s) == FALSE

\* if (root.hasAttribute(ATTR_INITIALIZED)) return;   in initPolyfill
AlreadyInitialized(s) == s.root.initialized

\* Mutant: initialized is looked at only after the attributes were written.
initPolyfill_CheckAfterWrite(s, id) ==
  IF ~NewWins(s.calls[id].version, s.calls[id].source,
              s.root.version, s.root.source)
  THEN Outcome(s, id, "deferred")
  ELSE IF AlreadyInitialized(s)
  THEN Outcome(SetSource(SetVersion(s, id), id), id, "skipped")
  ELSE Outcome(Schedule(SetSource(SetVersion(s, id), id), id), id, "claimed")

\* Mutant: a call that does not win still schedules its confirmation.
initPolyfill_ScheduleWhenDeferred(s, id) ==
  IF AlreadyInitialized(s) THEN Outcome(s, id, "skipped")
  ELSE IF ~NewWins(s.calls[id].version, s.calls[id].source,
                   s.root.version, s.root.source)
  THEN Outcome(Schedule(s, id), id, "deferred")
  ELSE Outcome(Schedule(SetSource(SetVersion(s, id), id), id), id, "claimed")

initPolyfill(s, id) ==
  IF AlreadyInitialized(s) THEN Outcome(s, id, "skipped")
  ELSE IF ~NewWins(s.calls[id].version, s.calls[id].source,
                   s.root.version, s.root.source)
  THEN Outcome(s, id, "deferred")
  ELSE Outcome(Schedule(SetSource(SetVersion(s, id), id), id), id, "claimed")

\* The call record of a new call of initPolyfill by context ctx; early: no
\* confirmation had run when the call was made.
NewCall(s, ctx, version, source) ==
  [s EXCEPT !.calls = Append(@, [ctx |-> ctx, version |-> version,
                                 source |-> source, outcome |-> "running",
                                 early |-> (s.fired = <<>>)])]

\* ------------------------------------------------------------ the pages

\* Nodes the parser or a script inserts once an observer is there (what
\* is inserted earlier is part of the page the sweep finds).
MaxInserts == 1

\* What the document holds when the first script runs.
Pages == { <<1>>, <<2, 4>>, <<5, 1>> }

InitialKids(page) ==
  [n \in {Root} \cup MarkupNodes |-> IF n = Root THEN page ELSE MarkupKids(n)]

\* SpecFn's variables outside SpecFn, and before the function has returned.
NoCall == [fn |-> "none"]
NoResult == [done |-> FALSE]

Idle == [fn |-> "idle", pc |-> 0, id |-> 0, existingVersion |-> Null,
         existingSource |-> NullStr]

\* The document when the first script runs: one of pages, the nodes of top
\* that are not on it still to come, and a renderer that throws for the
\* movies of one of the sets of faults.
InitWith(pages, top, faults) ==
  /\ root = [version |-> Null, source |-> NullStr, initialized |-> FALSE]
  /\ readyState = "loading"
  /\ dclFired = FALSE
  /\ listeners = <<>>
  /\ timers = <<>>
  /\ \E page \in pages :
       /\ kids = InitialKids(page)
       /\ fresh = top \ Range(page)
  /\ inserted = <<>>
  /\ observers = <<>>
  /\ mounts = <<>>
  /\ replaced = <<>>
  /\ errors = <<>>
  /\ calls = <<>>
  /\ inits = <<>>
  /\ writer = [version |-> 0, source |-> 0]
  /\ fired = <<>>
  /\ frames = [c \in Contexts |-> Idle]
  /\ preempted = FALSE
  /\ faulty \in faults
  /\ edits = <<>>
  /\ uncaught = <<>>

Init == InitWith(Pages, TopNodes, {{}}) /\ arg = NoCall /\ result = NoResult

\* Mutation records are delivered in a microtask, before any other task runs.
NoPendingRecords == \A i \in 1..Len(observers) : observers[i].records = <<>>

\* ----------------------------------------------- actions: run to completion

\* A script of context ctx calls initPolyfill(config, version, source).
Call(ctx, version, source) ==
  /\ Len(calls) < MaxCalls
  /\ NoPendingRecords
  /\ Commit(initPolyfill(NewCall(Cur, ctx, version, source), Len(calls) + 1))
  /\ UNCHANGED <<dclFired, fresh, inserted, frames, preempted>>

\* The parser reaches the end of the document.
ParsingEnds ==
  /\ readyState = "loading"
  /\ NoPendingRecords
  /\ readyState' = "interactive"
  /\ UNCHANGED <<root, dclFired, listeners, timers, kids, fresh, inserted,
                 observers, mounts, replaced, errors, calls, inits, writer,
                 fired, frames, preempted, faulty, edits, uncaught, arg, result>>

\* An exception that leaves a listener is reported by the dispatch, which
\* goes on with the next listener.
ReportException(s) == [s EXCEPT !.thrown = FALSE]

RECURSIVE RunListeners(_, _)
RunListeners(s, ids) ==
  IF ids = <<>> THEN s
  ELSE RunListeners(ReportException(performInit(s, Head(ids))), Tail(ids))

\* DOMContentLoaded is dispatched: every listener runs, in the order added.
DOMContentLoaded ==
  /\ readyState = "interactive"
  /\ ~dclFired
  /\ NoPendingRecords
  /\ dclFired' = TRUE
  /\ Commit(RunListeners([Cur EXCEPT !.listeners = <<>>], listeners))
  /\ UNCHANGED <<fresh, inserted, frames, preempted>>

\* The oldest setTimeout(doInit, 0) task runs.
TimerFires ==
  /\ timers # <<>>
  /\ NoPendingRecords
  /\ Commit(performInit([Cur EXCEPT !.timers = Tail(@)], Head(timers)))
  /\ UNCHANGED <<dclFired, fresh, inserted, frames, preempted>>

\* A page script appends node n, not yet used, to parent p, which is in the
\* document and is the root or an element with one of tags; every observer
\* gets a record of it.
InsertInto(n, p, tags, max) ==
  /\ n \in fresh
  /\ observers # <<>>
  /\ Len(inserted) < max
  /\ p \in DOMAIN kids
  /\ p = Root \/ (Desc(p).tag \in tags /\ p \in MarkupNodes)
  /\ InDocument(kids, p)
  /\ fresh' = fresh \ {n}
  /\ inserted' = Append(inserted, n)
  /\ kids' = [kids EXCEPT ![p] = Append(@, n)]
  /\ observers' = Notify(observers, MutationRecord("childList", p, <<n>>, <<>>))
  /\ UNCHANGED <<root, readyState, dclFired, listeners, timers, mounts,
                 replaced, errors, calls, inits, writer, fired, frames,
                 preempted, faulty, edits, uncaught, arg, result>>

\* The insertions of Spec: under the root or a div.
InsertNode(n, p) == InsertInto(n, p, {"DIV"}, MaxInserts)

\* Observer o's callback runs with the records queued for it.
DeliverMutations(o) ==
  /\ o \in 1..Len(observers)
  /\ observers[o].records # <<>>
  /\ Commit(ObserverCallback([Cur EXCEPT !.observers[o].records = <<>>],
                             observers[o].ctx, observers[o].records))
  /\ UNCHANGED <<dclFired, fresh, inserted, frames, preempted>>

\* polyfill/src/standalone.tsx: window.DirPlayer.init, also run on load.
init(ctx, version) == Call(ctx, version, "polyfill")

\* The extension's content script.
contentScript(ctx, version) == Call(ctx, version, "extension")

Next ==
  \/ \E ctx \in Contexts, version \in Versions : init(ctx, version)
  \/ \E ctx \in Contexts, version \in Versions : contentScript(ctx, version)
  \/ ParsingEnds
  \/ DOMContentLoaded
  \/ TimerFires
  \/ \E n \in TopNodes, p \in {Root} \cup MarkupNodes : InsertNode(n, p)
  \/ \E o \in 1..NumContexts : DeliverMutations(o)

Spec == Init /\ [][Next]_vars

\* ------------------------------------------- the replacement: SpecDom

\* Nodes a script inserts once an observer is there, in SpecDom.
MaxDomInserts == 2

\* What the document holds when the first script runs, in SpecDom.
PagesDom == { <<5>>, <<6>>, <<2, 4>>, <<10>>, <<11>> }

\* The renderer throws for no movie, or for movie.dcr.
FaultyMovies == { {}, {"movie.dcr"} }

InitDom ==
  InitWith(PagesDom, DomTopNodes, FaultyMovies) /\ arg = NoCall /\ result = NoResult

\* Context 1 is the page's world, where the standalone polyfill runs;
\* context 2 is the extension's content script world.
SourceOf(ctx) == IF ctx = 1 THEN "polyfill" ELSE "extension"

\* The one call each context makes when its script loads.
DomCall(ctx) ==
  /\ \A i \in 1..Len(calls) : calls[i].ctx # ctx
  /\ Call(ctx, <<1>>, SourceOf(ctx))

\* A script appends a new node under the root, a div or an object.
AppendChild(n, p) == InsertInto(n, p, {"DIV", "OBJECT"}, MaxDomInserts)

\* A script appends node n, which it inserted before and which is still in
\* the document, to parent p: the node moves, and every observer gets the
\* record of the removal (no added node) and the record of the insertion.
MoveNode(n, p) ==
  /\ n \in Range(inserted)
  /\ Len(inserted) < MaxDomInserts
  /\ InDocument(kids, n)
  /\ p \in DOMAIN kids
  /\ p = Root \/ (Desc(p).tag \in {"DIV", "OBJECT"} /\ p \in MarkupNodes)
  /\ InDocument(kids, p)
  /\ p # n /\ p \notin Range(Descendants(kids, n))
  /\ inserted' = Append(inserted, n)
  /\ kids' = LET old == parentElement(kids, n)
                 removed == [kids EXCEPT ![old] = SelectSeq(@, LAMBDA c : c # n)]
             IN [removed EXCEPT ![p] = Append(@, n)]
  /\ observers' =
       Notify(Notify(observers, MutationRecord("childList", parentElement(kids, n),
                                               <<>>, <<n>>)),
              MutationRecord("childList", p, <<n>>, <<>>))
  /\ UNCHANGED <<root, readyState, dclFired, listeners, timers, fresh, mounts,
                 replaced, errors, calls, inits, writer, fired, frames,
                 preempted, faulty, edits, uncaught, arg, result>>

NextDom ==
  \/ \E ctx \in Contexts : DomCall(ctx)
  \/ ParsingEnds
  \/ DOMContentLoaded
  \/ TimerFires
  \/ \E n \in DomTopNodes, p \in {Root} \cup MarkupNodes : AppendChild(n, p)
  \/ \E n \in DomTopNodes, p \in {Root} \cup MarkupNodes : MoveNode(n, p)
  \/ \E o \in 1..NumContexts : DeliverMutations(o)

SpecDom == InitDom /\ [][NextDom]_vars

\* ------------------------------- changes that add no node: SpecWatch

\* Attribute changes, text changes and removals a script makes once an
\* observer is there, in SpecWatch.
MaxEdits == 1

\* A script changes node n, which is in the document, without adding a
\* node: the browser queues the record for the observers whose options
\* cover its type.  The attributes and texts changed are none the page
\* markup of Markup gives.
Edit(type, n) ==
  /\ observers # <<>>
  /\ Len(edits) < MaxEdits
  /\ n \in MarkupNodes
  /\ InDocument(kids, n)
  /\ edits' = Append(edits, [type |-> type, target |-> n])
  /\ observers' = Notify(observers, MutationRecord(type, n, <<>>, <<>>))
  /\ UNCHANGED <<root, readyState, dclFired, listeners, timers, kids, fresh,
                 inserted, mounts, replaced, errors, calls, inits, writer,
                 fired, frames, preempted, faulty, uncaught, arg, result>>

\* element.setAttribute(...) on node n
SetAttribute(n) == Edit("attributes", n)

\* The text inside node n is changed.
SetData(n) == Edit("characterData", n)

\* A script removes node n from its parent: a childList record with the
\* node among removedNodes and no added node.
RemoveChild(n) ==
  /\ observers # <<>>
  /\ Len(edits) < MaxEdits
  /\ n \in MarkupNodes
  /\ InDocument(kids, n)
  /\ edits' = Append(edits, [type |-> "removal", target |-> n])
  /\ kids' = [kids EXCEPT ![parentElement(kids, n)] =
                            SelectSeq(@, LAMBDA c : c # n)]
  /\ observers' = Notify(observers,
                         MutationRecord("childList", parentElement(kids, n),
                                        <<>>, <<n>>))
  /\ UNCHANGED <<root, readyState, dclFired, listeners, timers, fresh,
                 inserted, mounts, replaced, errors, calls, inits, writer,
                 fired, frames, preempted, faulty, uncaught, arg, result>>

NextWatch ==
  \/ NextDom
  \/ \E n \in MarkupNodes : SetAttribute(n)
  \/ \E n \in MarkupNodes : SetData(n)
  \/ \E n \in MarkupNodes : RemoveChild(n)

SpecWatch == InitDom /\ [][NextWatch]_vars

\* ------------------------------------------ the pure functions: SpecFn

\* Sequences over set of length lo..hi.
SeqsOf(set, lo, hi) == UNION { [1..n -> set] : n \in lo..hi }

\* Version strings: up to MaxParts components, each a numeral, the empty
\* string, text that is no number, or '1e1'.
MaxParts == 2
VersionStrings == SeqsOf({ EmptyTok, NaNTok, ExpTok, 0, 1, 2 }, 1, MaxParts)

\* The sw1.. attributes of an embed: absent, empty or 'a', up to MaxSwGiven
\* of them, or every one of sw1..sw31 given.
MaxSwGiven == 4
SwLists ==
  SeqsOf({ NullStr, "", "a" }, 0, MaxSwGiven) \cup { [i \in 1..(MaxSw + 1) |-> "a"] }

\* The <param> tags of an object: up to MaxTags tags named sw1..sw4 or SW1,
\* with a value or without the value attribute, or sw1..sw31 all given.
MaxTags == 3
ParamNames == { SwName(i) : i \in 1..4 } \cup { "SW1" }
ParamTagLists ==
  SeqsOf({ Param(nm, v) : nm \in ParamNames, v \in { "a", "b", NullStr } }, 0, MaxTags)
    \cup { [i \in 1..(MaxSw + 1) |-> Param(SwName(i), "a")] }

\* External parameters as the movie form keeps them: up to MaxPairs pairs.
MaxPairs == 3
KeyValueLists ==
  SeqsOf({ [key |-> k, value |-> v] : k \in { "", " ", "a", " a", "b" },
                                     v \in { "x", "y" } }, 0, MaxPairs)

InitFn ==
  /\ InitWith({ <<1>> }, TopNodes, {{}})
  /\ result = NoResult
  /\ \/ \E a, b \in VersionStrings : arg = [fn |-> "compareSemver", a |-> a, b |-> b]
     \/ \E sw \in SwLists : arg = [fn |-> "replaceDirEmbed", sw |-> sw]
     \/ \E tags \in ParamTagLists : arg = [fn |-> "replaceDirObject", tags |-> tags]
     \/ \E params \in KeyValueLists :
          arg = [fn |-> "paramsArrayToRecord", params |-> params]

\* The function named by arg returns value.
Returns(fn, value) ==
  /\ arg.fn = fn
  /\ ~result.done
  /\ result' = [done |-> TRUE, value |-> value]
  /\ UNCHANGED <<root, readyState, dclFired, listeners, timers, kids, fresh,
                 inserted, observers, mounts, replaced, errors, calls, inits,
                 writer, fired, frames, preempted, faulty, edits, uncaught, arg>>

ApplyCompareSemver ==
  arg.fn = "compareSemver" /\ Returns("compareSemver", compareSemver(arg.a, arg.b))

\* The loop of replaceDirEmbed over the element's sw attributes.
ApplyEmbedParams ==
  arg.fn = "replaceDirEmbed"
    /\ Returns("replaceDirEmbed", EmbedParamsFrom(arg.sw, 1, <<>>))

\* The params checkDirObject collects from the tags, then the loop of
\* replaceDirObject over them.
ApplyObjectParams ==
  arg.fn = "replaceDirObject"
    /\ Returns("replaceDirObject",
               ObjectParamsFrom(ReduceParams(arg.tags, <<>>), 1, <<>>))

ApplyParamsArrayToRecord ==
  arg.fn = "paramsArrayToRecord"
    /\ Returns("paramsArrayToRecord", paramsArrayToRecord(arg.params))

NextFn ==
  \/ ApplyCompareSemver
  \/ ApplyEmbedParams
  \/ ApplyObjectParams
  \/ ApplyParamsArrayToRecord

SpecFn == InitFn /\ [][NextFn]_vars

\* ------------------------------- actions: one shared access per step

(* The scheduling of spec.md section 5: a context runs its own calls one   *)
(* after the other, and the contexts interleave at each read and write of  *)
(* a shared attribute.  frames[ctx] holds the call context ctx is in: the  *)
(* function, the statement it is at and the attribute values it has read.  *)
(* This specification follows the negotiation up to the start of the       *)
(* observer; insertions after it are followed under Spec.                  *)

Busy(ctx) == frames[ctx].fn # "idle"

\* Some context other than ctx is in the middle of a call.
OtherBusy(ctx) == \E c \in Contexts : c # ctx /\ Busy(c)

\* preempted: a context took a step while another was in the middle of a call.
Preempts(ctx) == preempted' = (preempted \/ OtherBusy(ctx))

Enter(ctx, fn, id) ==
  frames' = [frames EXCEPT ![ctx] =
               [fn |-> fn, pc |-> 1, id |-> id, existingVersion |-> Null,
                existingSource |-> NullStr]]

Goto(ctx, pc) == frames' = [frames EXCEPT ![ctx].pc = pc]

Return(ctx) == frames' = [frames EXCEPT ![ctx] = Idle]

\* A script of context ctx enters initPolyfill(config, version, source).
RWCall(ctx, version, source) ==
  /\ Len(calls) < MaxCalls
  /\ ~Busy(ctx)
  /\ NoPendingRecords
  /\ Commit(NewCall(Cur, ctx, version, source))
  /\ Enter(ctx, "initPolyfill", Len(calls) + 1)
  /\ Preempts(ctx)
  /\ UNCHANGED <<dclFired, fresh, inserted>>

\* The next statement of the initPolyfill call context ctx is in.
RWInitPolyfillStep(ctx) ==
  LET f == frames[ctx]
      id == f.id
  IN
  /\ f.fn = "initPolyfill"
  /\ Preempts(ctx)
  /\ UNCHANGED <<dclFired, fresh, inserted>>
  /\ CASE f.pc = 1 ->  \* if (root.hasAttribute(ATTR_INITIALIZED)) return
            IF AlreadyInitialized(Cur)
            THEN Commit(Outcome(Cur, id, "skipped")) /\ Return(ctx)
            ELSE Commit(Cur) /\ Goto(ctx, 2)
       [] f.pc = 2 ->  \* existingVersion = root.getAttribute(ATTR_VERSION)
            /\ Commit(Cur)
            /\ frames' = [frames EXCEPT ![ctx].existingVersion = root.version,
                                        ![ctx].pc = 3]
       [] f.pc = 3 ->  \* existingSource = ...; if (!newWins) return
            IF NewWins(calls[id].version, calls[id].source,
                       f.existingVersion, root.source)
            THEN /\ Commit(Cur)
                 /\ frames' = [frames EXCEPT ![ctx].existingSource = root.source,
                                             ![ctx].pc = 4]
            ELSE Commit(Outcome(Cur, id, "deferred")) /\ Return(ctx)
       [] f.pc = 4 ->  \* root.setAttribute(ATTR_VERSION, version)
            Commit(SetVersion(Cur, id)) /\ Goto(ctx, 5)
       [] f.pc = 5 ->  \* root.setAttribute(ATTR_SOURCE, source)
            Commit(SetSource(Cur, id)) /\ Goto(ctx, 6)
       [] OTHER ->     \* addEventListener or setTimeout
            Commit(Outcome(Schedule(Cur, id), id, "claimed")) /\ Return(ctx)

\* The first entry of a queue that context ctx owns.
FirstOf(queue, ctx) ==
  CHOOSE i \in 1..Len(queue) :
    /\ calls[queue[i]].ctx = ctx
    /\ \A j \in 1..(i - 1) : calls[queue[j]].ctx # ctx

Without(queue, i) == SubSeq(queue, 1, i - 1) \o SubSeq(queue, i + 1, Len(queue))

\* DOMContentLoaded is dispatched: the listeners become runnable.
RWDOMContentLoaded ==
  /\ readyState = "interactive"
  /\ ~dclFired
  /\ NoPendingRecords
  /\ dclFired' = TRUE
  /\ UNCHANGED <<root, readyState, listeners, timers, kids, fresh, inserted,
                 observers, mounts, replaced, errors, calls, inits, writer,
                 fired, frames, preempted, faulty, edits, uncaught, arg, result>>

\* Context ctx enters its oldest DOMContentLoaded listener.
RWListener(ctx) ==
  /\ dclFired
  /\ ~Busy(ctx)
  /\ NoPendingRecords
  /\ \E i \in 1..Len(listeners) : calls[listeners[i]].ctx = ctx
  /\ Commit(Confirming([Cur EXCEPT !.listeners = Without(@, FirstOf(listeners, ctx))],
                        listeners[FirstOf(listeners, ctx)]))
  /\ Enter(ctx, "performInit", listeners[FirstOf(listeners, ctx)])
  /\ Preempts(ctx)
  /\ UNCHANGED <<dclFired, fresh, inserted>>

\* Context ctx enters its oldest timer task.
RWTimerFires(ctx) ==
  /\ ~Busy(ctx)
  /\ NoPendingRecords
  /\ \E i \in 1..Len(timers) : calls[timers[i]].ctx = ctx
  /\ Commit(Confirming([Cur EXCEPT !.timers = Without(@, FirstOf(timers, ctx))],
                        timers[FirstOf(timers, ctx)]))
  /\ Enter(ctx, "performInit", timers[FirstOf(timers, ctx)])
  /\ Preempts(ctx)
  /\ UNCHANGED <<dclFired, fresh, inserted>>

\* The next statement of the performInit call context ctx is in.
RWPerformInitStep(ctx) ==
  LET f == frames[ctx]
      id == f.id
  IN
  /\ f.fn = "performInit"
  /\ Preempts(ctx)
  /\ UNCHANGED <<dclFired, fresh, inserted>>
  /\ CASE f.pc = 1 ->  \* if (root.getAttribute(ATTR_SOURCE) !== source) return
            Commit(Cur) /\ (IF SourceDiffers(Cur, calls[id].source)
                            THEN Return(ctx) ELSE Goto(ctx, 2))
       [] f.pc = 2 ->  \* if (root.hasAttribute(ATTR_INITIALIZED)) return
            Commit(Cur) /\ (IF InitializedAtRecheck(Cur)
                            THEN Return(ctx) ELSE Goto(ctx, 3))
       [] f.pc = 3 ->  \* root.setAttribute(ATTR_INITIALIZED, 'true')
            Commit(SetInitialized(Cur, id)) /\ Goto(ctx, 4)
       [] f.pc = 4 ->  \* replaceDirPlayerElements(config)
            /\ Commit(replaceDirPlayerElements(Cur, ctx))
            /\ IF replaceDirPlayerElements(Cur, ctx).thrown
               THEN Return(ctx) ELSE Goto(ctx, 5)
       [] OTHER ->     \* observer.observe(...)
            Commit(Observe(Cur, ctx)) /\ Return(ctx)

NextRW ==
  \/ \E ctx \in Contexts, version \in Versions, source \in Sources :
       RWCall(ctx, version, source)
  \/ \E ctx \in Contexts : RWInitPolyfillStep(ctx)
  \/ ParsingEnds
  \/ RWDOMContentLoaded
  \/ \E ctx \in Contexts : RWListener(ctx)
  \/ \E ctx \in Contexts : RWTimerFires(ctx)
  \/ \E ctx \in Contexts : RWPerformInitStep(ctx)

SpecRW == Init /\ [][NextRW]_vars

\* ================================================================ claims

AllIdle == \A c \in Contexts : ~Busy(c)

\* Every confirmation that was scheduled has run to its end.
AllConfirmed == listeners = <<>> /\ timers = <<>> /\ AllIdle

CallIds == 1..Len(calls)

\* C1 (as stated): over every interleaving of the contexts' reads and writes
\* of the shared attributes, at most one confirmation ever sets initialized
\* and goes on to sweep and observe.
C1_AtMostOneInitialization == Len(inits) <= 1

\* C1 (amended): when every call of initPolyfill and every confirmation ran
\* without a step of another context in between, at most one confirmation
\* ever sets initialized.
C1_AtMostOneInitializationRunToCompletion ==
  ~preempted => Len(inits) <= 1

\* C1 witness: two contexts claimed with the same source, both confirmations
\* ran without interleaving, and the second one found initialized set.
C1_Witness ==
  /\ ~preempted
  /\ AllConfirmed
  /\ Len(calls) = 2
  /\ calls[1].ctx # calls[2].ctx
  /\ calls[1].source = calls[2].source
  /\ calls[1].outcome = "claimed" /\ calls[2].outcome = "claimed"
  /\ Len(fired) = 2
  /\ Len(inits) = 1

\* Calls i and j are two registrations made before any confirmation ran.
BothEarly(i, j) ==
  /\ i \in CallIds /\ j \in CallIds /\ i # j
  /\ calls[i].early /\ calls[j].early
  /\ calls[i].outcome # "running" /\ calls[j].outcome # "running"

Initializers == { inits[k] : k \in 1..Len(inits) }

\* Every call so far passed a non-empty version string.
NonEmptyVersions == \A i \in CallIds : Truthy(calls[i].version)

\* C2: a confirmation initialises only while the shared version and source
\* both still equal what its own call wrote; a later writer of the same
\* source and another version makes it abort.  (Stated for calls with
\* non-empty versions; version and source do not change once initialized is
\* set, so they are the values the confirmation found.)
C2_InitializesOnlyOwnClaim ==
  NonEmptyVersions =>
    \A i \in Initializers :
      /\ root.version = calls[i].version
      /\ root.source = calls[i].source

\* C3: of two registrations made before any confirmation ran, the one with
\* the lower version never performs the initialisation.  (Stated for calls
\* with non-empty versions.)
C3_LowerVersionNeverInitializes ==
  NonEmptyVersions =>
    \A i, j \in CallIds :
      (BothEarly(i, j) /\ compareSemver(calls[i].version, calls[j].version) > 0)
        => j \notin Initializers

\* A step in which initPolyfill is called and returns.
CallStep == Len(calls') = Len(calls) + 1
Candidate == calls'[Len(calls')]

\* The call wrote its version and source and scheduled its confirmation.
Overwrites ==
  /\ Candidate.outcome = "claimed"
  /\ root'.version = Candidate.version
  /\ root'.source = Candidate.source
  /\ Len(listeners') + Len(timers') = Len(listeners) + Len(timers) + 1

\* The call returned without a write and without a confirmation.
Defers ==
  /\ Candidate.outcome = "deferred"
  /\ UNCHANGED <<root, listeners, timers>>

\* C4 (as stated): a call that finds version and source set and initialized
\* unset overwrites them iff its version is higher, or equal with the
\* candidate's source fallback and the existing source primary; otherwise it
\* defers.  (Stated for an existing version and source that are non-empty.)
C4_WinsAsStated ==
  [][(CallStep /\ ~root.initialized /\ Truthy(root.version) /\ TruthyStr(root.source))
       => LET cmp == compareSemver(Candidate.version, root.version)
              wins == \/ cmp > 0
                      \/ (cmp = 0 /\ Candidate.source = "polyfill"
                                  /\ root.source = "extension")
          IN IF wins THEN Overwrites ELSE Defers]_vars

\* C4 (amended): a call that finds a non-empty version and source and
\* initialized unset overwrites them iff its version is higher, or equal with
\* the candidate's source fallback, whatever the existing source; otherwise
\* it defers.
C4_WinsOnHigherOrFallbackTie ==
  [][(CallStep /\ ~root.initialized /\ Truthy(root.version) /\ TruthyStr(root.source))
       => LET cmp == compareSemver(Candidate.version, root.version)
              wins == cmp > 0 \/ (cmp = 0 /\ Candidate.source = "polyfill")
          IN IF wins THEN Overwrites ELSE Defers]_vars

\* C4 witness: a fallback call overwrote the claim of an equal-version
\* fallback call, and an equal-version primary call would have deferred.
C4_Witness ==
  /\ Len(calls) = 2
  /\ calls[1].source = "polyfill" /\ calls[2].source = "polyfill"
  /\ Truthy(calls[1].version)
  /\ compareSemver(calls[2].version, calls[1].version) = 0
  /\ calls[1].outcome = "claimed" /\ calls[2].outcome = "claimed"
  /\ calls[2].early
  /\ writer.source = 2

\* The page held the one eligible embed, node 1, and nothing was inserted.
SingleEmbedPage == fresh = TopNodes \ {1} /\ inserted = <<>>

\* C5: of two registrations of equal version and differing sources made
\* before any confirmation ran, the primary one never initialises and the
\* fallback one has initialised once both confirmations have run, with one
\* mount for a page of one eligible embed.
C5_FallbackWinsEqualVersion ==
  \A i, j \in CallIds :
    (/\ BothEarly(i, j)
     /\ calls[i].version = calls[j].version
     /\ calls[i].source = "polyfill" /\ calls[j].source = "extension")
      => /\ j \notin Initializers
         /\ (AllConfirmed /\ Len(calls) = 2) => inits = <<i>>
         /\ (AllConfirmed /\ Len(calls) = 2 /\ SingleEmbedPage)
              => (Len(mounts) = 1 /\ mounts[1].src = "movie.dcr")

\* Calls 1 and 2 are the only registrations: equal version, equal source,
\* different contexts, both made before any confirmation ran.
EqualPair ==
  /\ Len(calls) = 2
  /\ BothEarly(1, 2)
  /\ calls[1].version = calls[2].version
  /\ calls[1].source = calls[2].source
  /\ calls[1].ctx # calls[2].ctx

\* C6 (as stated): of two such registrations, the one that initialises is
\* the one that wrote the attributes last.  (Stated for calls with non-empty
\* versions.)
C6_LastWriterInitializes ==
  (NonEmptyVersions /\ EqualPair /\ inits # <<>>)
    => (writer.version = inits[1] /\ writer.source = inits[1])

\* C6 (amended): of two such registrations, the one whose confirmation runs
\* first performs the initialisation, and no other does.
C6_FirstConfirmationInitializes ==
  (EqualPair /\ fired # <<>>) => inits = <<fired[1]>>

\* C6 witness: two fallback registrations; the second wrote last, the first
\* initialised and the second's confirmation has run too.
C6_Witness ==
  /\ EqualPair
  /\ calls[1].source = "polyfill"
  /\ writer.source = 2
  /\ fired = <<1, 2>>
  /\ inits = <<1>>

\* C7: once initialized is set it stays set, and version and source never
\* change again, whatever calls and confirmations follow.
C7_InitializedIsTerminal ==
  [][root.initialized => root' = root]_vars

\* C7 witness: after the initialisation another context called initPolyfill
\* with a higher version than the one that initialised.
C7_Witness ==
  /\ root.initialized
  /\ \E i \in CallIds :
       /\ calls[i].outcome = "skipped"
       /\ calls[i].ctx # calls[inits[1]].ctx
       /\ compareSemver(calls[i].version, root.version) > 0

\* C8: a call of initPolyfill made when initialized is set writes no shared
\* attribute, schedules no confirmation, mounts nothing and starts no
\* observer.
C8_NoSideEffectOnceInitialized ==
  [][(CallStep /\ root.initialized)
       => /\ Candidate.outcome = "skipped"
          /\ UNCHANGED <<root, readyState, listeners, timers, kids, observers,
                         mounts, replaced, errors, inits, writer, fired>>]_vars

\* C8 witness: window.DirPlayer.init was called after the initialisation,
\* in the context that initialised.
C8_Witness ==
  /\ root.initialized
  /\ \E i \in CallIds :
       /\ calls[i].outcome = "skipped"
       /\ calls[i].source = "polyfill"
       /\ calls[i].ctx = calls[inits[1]].ctx

\* init ran twice in one context, or once more after initialized was set.
CalledAgain ==
  \/ \E i, j \in CallIds : i # j /\ calls[i].ctx = calls[j].ctx
                                  /\ calls[i].source = "polyfill"
                                  /\ calls[j].source = "polyfill"
  \/ \E i \in CallIds : calls[i].outcome = "skipped"

\* C9: when init is called twice in one context, or again after initialized
\* is set, there is one sweep and one observer at most and no element is
\* replaced or mounted twice.
C9_NoDuplicateMounts ==
  CalledAgain =>
    /\ Len(inits) <= 1
    /\ Len(observers) <= 1
    /\ Len(mounts) = Len(replaced)
    /\ \A a, b \in 1..Len(replaced) :
         a # b => /\ replaced[a].element # replaced[b].element
                  /\ replaced[a].detached # replaced[b].detached

\* C9 witness: init ran twice in one context, both confirmations have run,
\* the first mounted the page's element and the second did nothing.
C9_Witness ==
  /\ Len(calls) = 2
  /\ calls[1].ctx = calls[2].ctx
  /\ calls[1].source = "polyfill" /\ calls[2].source = "polyfill"
  /\ calls[1].outcome = "claimed" /\ calls[2].outcome = "claimed"
  /\ fired = <<1, 2>>
  /\ inits = <<1>>
  /\ Len(mounts) >= 1

InitializerContexts == { calls[i].ctx : i \in Initializers }

\* C10: every observer and every mount belongs to a context that performed
\* the initialisation, and there is no observer before initialized is set.
C10_WatcherOnlyInInitializer ==
  /\ \A o \in 1..Len(observers) :
       root.initialized /\ observers[o].ctx \in InitializerContexts
  /\ \A m \in 1..Len(mounts) : mounts[m].ctx \in InitializerContexts
  /\ Len(observers) <= Len(inits)

\* C10 witness: one context deferred or aborted, the other initialised and
\* its observer mounted an inserted element.
C10_Witness ==
  /\ Len(observers) = 1
  /\ \E i \in CallIds :
       /\ calls[i].ctx \notin InitializerContexts
       /\ \/ calls[i].outcome = "deferred"
          \/ (calls[i].outcome = "claimed" /\ i \in Range(fired))
  /\ \E r \in 1..Len(replaced) : replaced[r].element \in Range(inserted)

\* ------------------------------------------- claims on the replacement

\* The renderers created so far: the renderPlayer calls, thrown or not.
Renderers == Len(mounts) + Len(uncaught)

\* The replaced entries that detached, or went for, node d.
ReplacementsOf(d) == { r \in 1..Len(replaced) : replaced[r].detached = d }

\* C11: over the sweep and every batch of records, no node is replaced twice
\* and one renderer is created per replaced node: no two replacements go for
\* the same node, also when a record names a node that was replaced or moved
\* before, or an embed whose parent object was replaced before.
\* (Stated for a renderer that never throws.)
C11_ReplacedOnce ==
  faulty = {} =>
    /\ \A d \in DOMAIN kids : Cardinality(ReplacementsOf(d)) <= 1
    /\ Renderers = Cardinality({ replaced[r].detached : r \in 1..Len(replaced) })

\* The nodes of the subtree a script inserts with node n: n and the
\* descendants it comes with.
Subtree(n) == {n} \cup Range(Descendants([m \in MarkupNodes |-> MarkupKids(m)], n))

\* Node d is an embed or an object the classifier takes and that has a movie
\* to play: an embed whose src ends with .dcr, or an object that matches and
\* whose params give a src.
Playable(d) ==
  \/ Desc(d).tag = "EMBED" /\ checkDirEmbed(d)
  \/ /\ Desc(d).tag = "OBJECT"
     /\ checkDirObject(kids, d).isDirObject
     /\ TruthyStr(getCaseInsensitiveValue(checkDirObject(kids, d).params, "src"))

\* C12: once the records of the insertions are delivered, every eligible
\* embed or object of an inserted subtree, the inserted node or one of its
\* descendants, has been replaced: none is left in the document.
\* (Stated for a renderer that never throws.)
C12_DescendantsReplaced ==
  (faulty = {} /\ NoPendingRecords) =>
    \A i \in 1..Len(inserted) : \A d \in Subtree(inserted[i]) :
      Playable(d) => ~InDocument(kids, d)

\* Node d is an embed or an object the classifier takes.
Eligible(d) ==
  \/ Desc(d).tag = "EMBED" /\ checkDirEmbed(d)
  \/ Desc(d).tag = "OBJECT" /\ checkDirObject(kids, d).isDirObject

\* The replacements called for node n, each with its one renderPlayer call.
CallsFor(n) == { r \in 1..Len(replaced) : replaced[r].element = n }

\* Script-inserted nodes that were inserted once (not moved afterwards).
InsertedOnce ==
  { n \in Range(inserted) : Cardinality({ i \in 1..Len(inserted) : inserted[i] = n }) = 1 }

ReportsFor(n) == { e \in 1..Len(errors) : errors[e] = n }

C14_FailureContained ==
  NoPendingRecords =>
    \A n \in InsertedOnce : Eligible(n) =>
      Cardinality(CallsFor(n)) + Cardinality(ReportsFor(n)) >= 1

\* ------------------------------------------ claims on the pure functions

\* The value of sw<i> on the embed of arg: the attribute, NullStr if absent.
EmbedValue(i) == IF i \in 1..Len(arg.sw) THEN arg.sw[i] ELSE NullStr

\* The value of the param named sw<i> on the object of arg: that of the last
\* tag of that name, NullStr if there is none or it has no value.
ObjectValue(i) ==
  LET named == { j \in 1..Len(arg.tags) : arg.tags[j].name = SwName(i) }
  IN IF named = {} THEN NullStr
     ELSE arg.tags[CHOOSE j \in named : \A m \in named : m <= j].value

\* The pairs sw1..sw(k-1), k the smallest index in 1..30 whose value is
\* absent, or 31 when none is.
PairsUpToFirstGap(value(_)) ==
  LET gaps == { i \in 1..30 : value(i) = NullStr }
      k == IF gaps = {} THEN 31 ELSE CHOOSE i \in gaps : \A g \in gaps : i <= g
  IN [i \in 1..(k - 1) |-> Param(SwName(i), value(i))]

\* C15: the external parameters taken from an embed's attributes and from an
\* object's params are exactly the pairs sw1..sw(k-1), in ascending order,
\* k being the smallest index in 1..30 whose value is absent (all of
\* sw1..sw30 when none is); nothing after the first gap is included.
C15_ParamsUpToFirstGap ==
  /\ (arg.fn = "replaceDirEmbed" /\ result.done)
       => result.value = PairsUpToFirstGap(EmbedValue)
  /\ (arg.fn = "replaceDirObject" /\ result.done)
       => result.value = PairsUpToFirstGap(ObjectValue)

\* C15 witness: sw1, sw2 and sw4 are given on an embed, sw3 is not, and the
\* extraction returned sw1 and sw2 only.
C15_Witness ==
  /\ arg.fn = "replaceDirEmbed"
  /\ arg.sw = <<"a", "a", NullStr, "a">>
  /\ result.done
  /\ result.value = <<Param("sw1", "a"), Param("sw2", "a")>>

\* ------------------------------------- claims on nested and skipped objects

\* The pairs (object, embed): an eligible embed that comes nested in an
\* eligible object declaring another size.
NestedPairs ==
  { <<o, e>> \in MarkupNodes \X MarkupNodes :
      /\ Desc(o).tag = "OBJECT" /\ e \in Range(MarkupKids(o))
      /\ Desc(e).tag = "EMBED" /\ checkDirEmbed(e)
      /\ Eligible(o)
      /\ <<Desc(o).width, Desc(o).height>> # <<Desc(e).width, Desc(e).height>> }

\* Node n was on the page the sweep went over, or a script inserted it (once)
\* and the observer has been given the record.
Handled(n) ==
  /\ n \notin fresh
  /\ root.initialized
  /\ NoPendingRecords
  /\ n \in Range(inserted) => n \in InsertedOnce

\* C16: for an embed nested in an eligible object of another size, the sweep
\* and the observer make exactly one replacement for the pair, the mount gets
\* the object's width and height, and the object, with the embed in it, is
\* out of the document.  (Stated for a renderer that never throws.)
C16_NestedPairReplacedOnce ==
  faulty = {} =>
    \A pair \in NestedPairs :
      LET o == pair[1]
          e == pair[2]
          rs == { r \in 1..Len(replaced) : replaced[r].element \in {o, e} }
      IN Handled(o) =>
           /\ Cardinality(rs) = 1
           /\ \A r \in rs : /\ mounts[r].width = Desc(o).width
                            /\ mounts[r].height = Desc(o).height
                            /\ replaced[r].detached = o
           /\ ~InDocument(kids, o)

\* Object o matches by its classid and its own <param> children give no src.
ClassidOnly(o) ==
  /\ Desc(o).tag = "OBJECT"
  /\ Desc(o).classid # NullStr
  /\ Lower(Desc(o).classid) = Lower(ReservedClassId)
  /\ ~TruthyStr(getCaseInsensitiveValue(ReduceParams(Desc(o).params, <<>>), "src"))

\* No script has put another object into the document: the params an object
\* resolves are those of its own <param> children.
OwnParamsOnly(o) == \A n \in Range(inserted) : Desc(n).tag = "OBJECT" => n = o

EligibleAsStated(n) ==
  \/ /\ Desc(n).tag = "OBJECT"
     /\ \/ /\ Desc(n).classid # NullStr
           /\ Lower(Desc(n).classid) = Lower(ReservedClassId)
        \/ \E i \in 1..Len(Desc(n).params) :
             /\ Lower(Desc(n).params[i].name) = "src"
             /\ Desc(n).params[i].value \in { "movie.dcr", "intro.dcr" }
  \/ /\ Desc(n).tag = "EMBED"
     /\ Desc(n).src \in { "movie.dcr", "intro.dcr" }

\* C18: the classifier takes an object if and only if its classid is the
\* reserved identifier ignoring case or its child param named src (ignoring
\* case) ends with .dcr, an embed if and only if its src ends with .dcr, and
\* no renderer is created for an element that is not eligible in this sense.
\* (The objects are classified where the observer meets them: in the
\* document, once a context has initialised.)
C18_ClassifiedAsStated ==
  /\ \A r \in 1..Len(replaced) : EligibleAsStated(replaced[r].element)
  /\ \A n \in MarkupNodes :
       /\ Desc(n).tag = "EMBED" => (checkDirEmbed(n) <=> EligibleAsStated(n))
       /\ (Desc(n).tag = "OBJECT" /\ InDocument(kids, n) /\ root.initialized) =>
            (checkDirObject(kids, n).isDirObject <=> EligibleAsStated(n))

\* ------------------------------------------- claims on compareSemver

\* Component i of a version as the claim reads it: 0 where the string has no
\* component i or the component is no integer numeral ('', text, '1e1').
StatedPart(parts, i) ==
  IF i > Len(parts) THEN 0
  ELSE IF parts[i] \in { EmptyTok, NaNTok, ExpTok } THEN 0
  ELSE parts[i]

\* The lexicographic order of the two tuples, the shorter padded with zeros:
\* the first index where they differ decides.
LexCompare(a, b) ==
  LET n == Max(Len(a), Len(b))
      differ == { i \in 1..n : StatedPart(a, i) # StatedPart(b, i) }
      first == CHOOSE i \in differ : \A j \in differ : i <= j
  IN IF differ = {} THEN 0
     ELSE IF StatedPart(a, first) > StatedPart(b, first) THEN 1 ELSE -1

\* C19: compareSemver(a, b) is the lexicographic comparison of the two
\* dotted-integer tuples, the shorter padded with zeros and every malformed
\* or missing component read as 0, and compareSemver(a, b) is the negation of
\* compareSemver(b, a).
C19_LexicographicWithZeros ==
  (arg.fn = "compareSemver" /\ result.done) =>
    /\ result.value = LexCompare(arg.a, arg.b)
    /\ result.value = 0 - compareSemver(arg.b, arg.a)

\* ------------------------------------- claims on paramsArrayToRecord

\* The index of the last pair of params whose key satisfies Is.
LastWhere(params, Is(_)) ==
  CHOOSE i \in 1..Len(params) :
    /\ Is(params[i].key)
    /\ \A j \in 1..Len(params) : Is(params[j].key) => j <= i

\* C20 (as stated): the mapping has exactly the keys of the sequence that
\* are not empty or whitespace-only, each with the value of its last
\* occurrence; no other key is added or removed.
C20_LastOccurrencePerKey ==
  (arg.fn = "paramsArrayToRecord" /\ result.done) =>
    LET keys == { arg.params[i].key : i \in 1..Len(arg.params) } \ { "", " " }
    IN /\ DOMAIN result.value = keys
       /\ \A k \in keys :
            LET Same(key) == key = k
            IN result.value[k] = arg.params[LastWhere(arg.params, Same)].value

\* C20 (amended): keys are taken without their surrounding whitespace.  The
\* mapping has exactly the trimmed keys of the sequence that are not empty,
\* each with the value of the last pair whose trimmed key it is; pairs whose
\* key is empty or whitespace-only are dropped.
C20_LastOccurrencePerTrimmedKey ==
  (arg.fn = "paramsArrayToRecord" /\ result.done) =>
    LET keys == { Trim(arg.params[i].key) : i \in 1..Len(arg.params) } \ { "" }
    IN /\ DOMAIN result.value = keys
       /\ \A k \in keys :
            LET Same(key) == Trim(key) = k
            IN result.value[k] = arg.params[LastWhere(arg.params, Same)].value

\* C20 witness: (' a', x), (' ', x), ('a', y) was converted to the mapping
\* with the one key 'a', holding y.
C20_Witness ==
  /\ arg.fn = "paramsArrayToRecord"
  /\ result.done
  /\ arg.params = << [key |-> " a", value |-> "x"], [key |-> " ", value |-> "x"],
                     [key |-> "a", value |-> "y"] >>
  /\ DOMAIN result.value = { "a" }
  /\ result.value["a"] = "y"

\* ------------------------------------- claims on the deferred confirmation

\* C21: a call of initPolyfill never initialises: the step of the call sets
\* no initialized attribute, replaces no element, mounts no renderer and
\* starts no observer.  The initialisation is made by a confirmation (the
\* timer task or the DOMContentLoaded listener), in a later step than the
\* call that scheduled it, which had returned as "claimed".
C21_NeverInitializesInTheCall ==
  [][ /\ Len(calls') > Len(calls) =>
           /\ root'.initialized = root.initialized
           /\ inits' = inits
           /\ fired' = fired
           /\ replaced' = replaced
           /\ mounts' = mounts
           /\ observers' = observers
      /\ inits' # inits =>
           /\ calls' = calls
           /\ Len(fired') > Len(fired)
           /\ \A k \in (Len(inits) + 1)..Len(inits') :
                /\ inits'[k] \in 1..Len(calls)
                /\ calls[inits'[k]].outcome = "claimed"
                /\ inits'[k] \in Range(listeners) \cup Range(timers)
    ]_vars

\* C21 witness: a call made once the document was parsed initialised the
\* page from its timer task, before DOMContentLoaded, and replaced elements.
C21_Witness ==
  /\ readyState = "interactive"
  /\ ~dclFired
  /\ Len(inits) = 1
  /\ calls[inits[1]].outcome = "claimed"
  /\ root.initialized
  /\ replaced # <<>>

\* ------------------------------------------------------- liveness

\* The guards of the tasks the event loop holds (each task, once its guard
\* holds, can run and changes the state: it leaves its queue).
TimerEnabled == timers # <<>> /\ NoPendingRecords
DOMContentLoadedEnabled == readyState = "interactive" /\ ~dclFired /\ NoPendingRecords
DeliverEnabled(o) == o \in 1..Len(observers) /\ observers[o].records # <<>>

\* The scheduling of Spec with every queued task eventually run: the parser
\* reaches the end of the document, DOMContentLoaded is dispatched, every
\* timer task runs and every queued mutation record is delivered.  This is
\* weak fairness of the four actions; for the three that run handlers,
\* WF_vars(A) is written out as []<>~ENABLED <<A>>_vars \/ []<><<A>>_vars
\* with the action's guard for ENABLED.
SpecLive ==
  /\ Init /\ [][Next]_vars
  /\ WF_vars(ParsingEnds)
  /\ ([]<>(~DOMContentLoadedEnabled) \/ []<><<DOMContentLoaded>>_vars)
  /\ ([]<>(~TimerEnabled) \/ []<><<TimerFires>>_vars)
  /\ \A o \in 1..NumContexts :
       ([]<>(~DeliverEnabled(o)) \/ []<><<DeliverMutations(o)>>_vars)

\* C22: once some context has called initPolyfill, and every confirmation
\* that is scheduled eventually fires, the document eventually is
\* initialised: the protocol does not end with every candidate having
\* deferred or aborted.
C22_EventuallyInitialized == (calls # <<>>) ~> root.initialized

\* C22 witness: two candidates claimed one after the other, the first one's
\* confirmation aborted (the source was no longer its own) and the second
\* one's initialised the document.
C22_Witness ==
  /\ Len(calls) = 2
  /\ calls[1].outcome = "claimed" /\ calls[2].outcome = "claimed"
  /\ calls[1].source # calls[2].source
  /\ 1 \in Range(fired)
  /\ inits = <<2>>
  /\ root.initialized

\* ------------------------------------------- claims on the negotiation

\* The calls that found the document claimed and did not win.
DeferredCalls(cs) == { i \in 1..Len(cs) : cs[i].outcome = "deferred" }

\* C23: a call of initPolyfill that does not win against the claimed state
\* leaves version and source as they were and schedules no confirmation; its
\* confirmation never runs, so it never sets initialized, and a context whose
\* only call it is never mounts a renderer or starts an observer.
C23_LoserLeavesNoTrace ==
  [][ \A i \in DeferredCalls(calls') :
        /\ i > Len(calls) =>
             /\ root' = root
             /\ listeners' = listeners
             /\ timers' = timers
        /\ i \notin Range(listeners') \cup Range(timers')
        /\ i \notin Range(fired') \cup Range(inits')
        /\ (\A j \in 1..Len(calls') : calls'[j].ctx = calls'[i].ctx => j = i) =>
             /\ \A m \in 1..Len(mounts') : mounts'[m].ctx # calls'[i].ctx
             /\ \A o \in 1..Len(observers') : observers'[o].ctx # calls'[i].ctx
    ]_vars

\* C23 witness: the second call, of another context, found the document
\* claimed and did not win; every confirmation has run, and the first call
\* initialised the document and mounted renderers.
C23_Witness ==
  /\ Len(calls) = 2
  /\ calls[1].outcome = "claimed" /\ calls[2].outcome = "deferred"
  /\ calls[1].ctx # calls[2].ctx
  /\ listeners = <<>> /\ timers = <<>>
  /\ inits = <<1>>
  /\ mounts # <<>>
  /\ root.version = calls[1].version /\ root.source = calls[1].source

\* No call has written the version and source attributes yet.
Unclaimed == writer.version = 0 /\ writer.source = 0

\* C24: a call treats the document as unclaimed exactly when no earlier
\* call has written version and source.  On an unclaimed document it writes
\* its own version and source and schedules its confirmation, whatever they
\* are; on a document an earlier call claimed, whatever version string that
\* call wrote, it applies the comparison (higher version, or equal version
\* and a fallback candidate) and defers when the comparison is lost.
C24_UnclaimedOnlyBeforeFirstWrite ==
  [][(CallStep /\ ~root.initialized)
       => IF Unclaimed THEN Overwrites
          ELSE LET cmp == compareSemver(Candidate.version, root.version)
               IN IF cmp > 0 \/ (cmp = 0 /\ Candidate.source = "polyfill")
                  THEN Overwrites ELSE Defers]_vars

\* ------------------------------------------ claims on the order of steps

\* The replacements the sweep made, and those the observer's callback made.
SweepReplacements == { r \in 1..Len(replaced) : ~replaced[r].watching }
WatcherReplacements == { r \in 1..Len(replaced) : replaced[r].watching }

\* The nodes that came with the page or inside an inserted subtree.
InsertedSubtrees == UNION { Subtree(inserted[i]) : i \in 1..Len(inserted) }

\* C25: in the initialising context initialized is set first, then the sweep
\* replaces the eligible elements present, then the observer starts.  Every
\* replacement is made with initialized set; every replacement of the sweep
\* comes before the observer runs and before every replacement of the
\* observer; the sweep handles only elements of the page and the observer
\* only inserted nodes.  Once initialized is set, the sweep has left no
\* playable element of the page in the document and the observer is
\* running, so that no inserted node is missed: each one is queued for the
\* observer or was given to it.
C25_InitializedThenSweepThenWatcher ==
  /\ \A r \in 1..Len(replaced) : replaced[r].initialized
  /\ \A r \in SweepReplacements :
       /\ replaced[r].element \notin Range(inserted)
       /\ \A q \in WatcherReplacements : r < q
  /\ \A r \in WatcherReplacements : replaced[r].element \in Range(inserted)
  /\ observers # <<>> => root.initialized
  /\ root.initialized =>
       /\ Len(observers) = 1
       /\ observers[1].ctx = calls[inits[1]].ctx
       /\ \A n \in MarkupNodes \ (fresh \cup InsertedSubtrees) :
            Playable(n) => ~InDocument(kids, n)

\* The positions of seq hold the elements of sub, in sub's order.
IsSubsequence(sub, seq) ==
  \E f \in [1..Len(sub) -> 1..Len(seq)] :
    /\ \A i \in 1..Len(sub) : seq[f[i]] = sub[i]
    /\ \A i, j \in 1..Len(sub) : i < j => f[i] < f[j]

\* The elements the observer's callback replaced, in the order it did.
WatcherReplaced ==
  LET made == SelectSeq(replaced, LAMBDA r : r.watching)
  IN [i \in 1..Len(made) |-> made[i].element]

\* The inserted objects the callback reported, in the order it did.
WatcherReported == SelectSeq(errors, LAMBDA n : n \in Range(inserted))

\* C26: the observer handles the inserted nodes in the order of delivery:
\* its replacements and its reports follow the order in which the records
\* were queued, and every node of a delivered batch has been replaced or
\* found not eligible (or reported) before a node of a later batch is
\* looked at: once the records are delivered, no eligible inserted node is
\* left unhandled, and no node is handled while an eligible node delivered
\* before it is not.
C26_HandledInDeliveryOrder ==
  /\ IsSubsequence(WatcherReplaced, inserted)
  /\ IsSubsequence(WatcherReported, inserted)
  /\ \A i \in 1..Len(inserted) :
       (inserted[i] \in InsertedOnce /\ Eligible(inserted[i])) =>
         \/ CallsFor(inserted[i]) # {} \/ ReportsFor(inserted[i]) # {}
         \/ /\ ~NoPendingRecords
            /\ \A j \in (i + 1)..Len(inserted) :
                 CallsFor(inserted[j]) = {} /\ ReportsFor(inserted[j]) = {}

\* ------------------------------------------ claims on the shared attributes

\* The version and the source attribute hold what one call wrote.
OnePair ==
  /\ writer.version = writer.source
  /\ writer.version # 0 =>
       /\ root.version = calls[writer.version].version
       /\ root.source = calls[writer.version].source

\* C27 (as stated): with the contexts' reads and writes of the attributes
\* interleaved, whenever no call is in the middle of its writes the version
\* and source attributes hold the pair one single call wrote, never the
\* version of one candidate with the source of another.  (Stated for calls
\* with non-empty versions.)
C27_NeverTorn ==
  (AllIdle /\ NonEmptyVersions /\ root.version # Null /\ root.source # NullStr) =>
    \E i \in CallIds :
      /\ calls[i].outcome = "claimed"
      /\ root.version = calls[i].version
      /\ root.source = calls[i].source

\* C27 (amended): when every call of initPolyfill ran without a step of
\* another context in between, as on the one event loop of a page, the
\* version and source attributes hold, whenever no call is in the middle of
\* its writes, the pair one single call wrote.
C27_NeverTornRunToCompletion == (~preempted /\ AllIdle) => OnePair

\* C27 witness: two contexts registered one after the other, each call run
\* without interleaving, the second overwrote the first, and the attributes
\* hold the second call's version and source.
C27_Witness ==
  /\ ~preempted
  /\ AllIdle
  /\ Len(calls) = 2
  /\ calls[1].ctx # calls[2].ctx
  /\ calls[1].outcome = "claimed" /\ calls[2].outcome = "claimed"
  /\ calls[1].version # calls[2].version /\ calls[1].source # calls[2].source
  /\ writer = [version |-> 2, source |-> 2]
  /\ root.version = calls[2].version /\ root.source = calls[2].source

C29_UnclaimedClaimedInitialized ==
  /\ [](root.initialized =>
          /\ root.version # Null
          /\ root.source # NullStr
          /\ inits # <<>>
          /\ root.source = calls[inits[1]].source)
  /\ [][ /\ root.version # Null => root'.version # Null
         /\ root.source # NullStr => root'.source # NullStr
         /\ (root'.initialized /\ ~root.initialized) =>
              (root.version # Null /\ root.source # NullStr)
         /\ root.initialized => root' = root
     ]_vars

\* C29 witness: the document was initialised by the first call, and a later
\* call of the other source with a higher version found it initialised: the
\* attributes still hold the first call's version and source.
C29_Witness ==
  /\ Len(calls) = 2
  /\ inits = <<1>>
  /\ calls[2].outcome = "skipped"
  /\ calls[2].source # calls[1].source
  /\ compareSemver(calls[2].version, calls[1].version) > 0
  /\ root.initialized
  /\ root.version = calls[1].version /\ root.source = calls[1].source

\* ------------------------------------------- claims on the mount elements

\* C30: every mount element given to the renderer is in the document when
\* it is given: neither the sweep nor the observer creates a renderer on a
\* mount element that is detached or inside a detached subtree.
C30_MountsAttached ==
  \A m \in 1..Len(mounts) : mounts[m].connected

\* ------------------------------------ claims on an object's parameters

\* The value of sw<i> in the params of the object of arg, found the way src
\* is found in them: by name, ignoring letter case.
CaseInsensitiveValue(i) ==
  getCaseInsensitiveValue(ReduceParams(arg.tags, <<>>), SwName(i))

\* C31: the external parameters sw1..sw30 of an object are looked up by
\* param name ignoring letter case, as src is: a param named 'SW1' is
\* extracted as the first external parameter.
C31_SwLookupIgnoresCase ==
  (arg.fn = "replaceDirObject" /\ result.done)
    => result.value = PairsUpToFirstGap(CaseInsensitiveValue)

\* ------------------------------------- claims on an embed in an object

\* The replacements made for an embed.
EmbedReplacements ==
  { r \in 1..Len(replaced) : Desc(replaced[r].element).tag = "EMBED" }

\* Replacement r detached node d and its renderer got the width and height
\* of node g.
DetachedWithGeometryOf(r, d, g) ==
  /\ replaced[r].detached = d
  /\ mounts[r].width = Desc(g).width
  /\ mounts[r].height = Desc(g).height

\* C32 (as stated): the outer object's width and height override the
\* embed's, and the object is detached in place of the embed, only when the
\* embed is the sole child of an eligible object; an embed whose parent
\* object is not eligible or has other children is itself replaced, with its
\* own width and height.  (Stated for a renderer that never throws and for
\* the replacements whose detached node was in the document.)
C32_ObjectWinsOnlyForSoleChild ==
  faulty = {} =>
    \A r \in EmbedReplacements :
      LET e == replaced[r].element IN
        replaced[r].wasConnected =>
        IF replaced[r].parentEligible /\ replaced[r].soleChild
        THEN DetachedWithGeometryOf(r, replaced[r].parent, replaced[r].parent)
        ELSE DetachedWithGeometryOf(r, e, e)

\* C32 (amended): whenever the parent element of a replaced embed is an
\* object, eligible or not and whatever other children it has, the object
\* is the node detached and its width and height are the ones the renderer
\* gets; an embed whose parent is no object is itself detached, with its own
\* width and height.  The detached node is out of the document afterwards.
\* (Stated for a renderer that never throws.)
C32_ObjectWinsForAnyParentObject ==
  faulty = {} =>
    \A r \in EmbedReplacements :
      LET e == replaced[r].element
          p == replaced[r].parent
      IN /\ IF p \in MarkupNodes /\ Desc(p).tag = "OBJECT"
            THEN DetachedWithGeometryOf(r, p, p)
            ELSE DetachedWithGeometryOf(r, e, e)
         /\ ~InDocument(kids, replaced[r].detached)

\* C32 witness: a script put embed 1 into object 6, which held embed 7
\* already; the observer replaced the object in the object's size, and the
\* mount element is in the document in its place.
C32_Witness ==
  /\ faulty = {}
  /\ \E r \in EmbedReplacements :
       /\ replaced[r].element = 1
       /\ replaced[r].parent = 6
       /\ ~replaced[r].soleChild
       /\ replaced[r].wasConnected
       /\ DetachedWithGeometryOf(r, 6, 6)
       /\ mounts[r].width = "200" /\ mounts[r].src = "movie.dcr"
       /\ mounts[r].connected
       /\ ~InDocument(kids, 6)

\* ------------------------------------- claims on a failing initial sweep

\* C33: the context that sets initialized also starts the observer, even
\* when a replacement of the initial sweep fails: the document is never
\* initialized with no observer running.
C33_InitializedHasWatcher ==
  root.initialized =>
    \E o \in 1..Len(observers) : observers[o].ctx = calls[inits[1]].ctx

\* ------------------------------------- claims on the replacement's frame

\* The tree after a replacement as the claim words it: mount element m, with
\* no children, stands where node d stood among its siblings, and nothing
\* else differs.
StatedReplace(k, d, m) ==
  LET p == parentElement(k, d)
      withMount == k @@ (m :> <<>>)
  IN IF p = NoNode THEN withMount
     ELSE [withMount EXCEPT ![p] =
             [i \in 1..Len(k[p]) |-> IF k[p][i] = d THEN m ELSE k[p][i]]]

RECURSIVE StatedTree(_, _)
StatedTree(k, new) ==
  IF new = <<>> THEN k
  ELSE StatedTree(StatedReplace(k, Head(new).detached, Head(new).mount), Tail(new))

\* Each of the replacements new, made in this order from tree k, found its
\* node in a place among siblings.
RECURSIVE AllPlaced(_, _)
AllPlaced(k, new) ==
  \/ new = <<>>
  \/ /\ parentElement(k, Head(new).detached) # NoNode
     /\ AllPlaced(StatedReplace(k, Head(new).detached, Head(new).mount), Tail(new))

\* The replacements a step makes.
NewReplacements == SubSeq(replaced', Len(replaced) + 1, Len(replaced'))

\* C34: a replacement puts the new empty mount element at exactly the
\* position the detached node (the embed or object, or the parent object of
\* a nested embed) had among its siblings, takes only that node out of the
\* document, and leaves every other node and the version and source
\* attributes as they were.
C34_MountTakesThePlace ==
  [][Len(replaced') > Len(replaced) =>
       /\ AllPlaced(kids, NewReplacements)
       /\ kids' = StatedTree(kids, NewReplacements)
       /\ \A r \in (Len(replaced) + 1)..Len(replaced') :
            /\ replaced'[r].detached \in
                 { replaced'[r].element, replaced'[r].parent }
            /\ ~InDocument(kids', replaced'[r].detached)
       /\ root'.version = root.version
       /\ root'.source = root.source]_vars

\* ------------------------------------- claims on what the observer sees

\* What classifying and replacing leave behind: the replacements, the
\* renderer calls (made or thrown) and the reports.
WatcherEffects == <<replaced, mounts, uncaught, errors>>

\* The nodes the records name as added.
RECURSIVE AddedIn(_)
AddedIn(records) ==
  IF records = <<>> THEN {}
  ELSE Range(Head(records).addedNodes) \cup AddedIn(Tail(records))

\* The step delivers the records queued for observer o.
Delivers(o) ==
  /\ o \in 1..Len(observers)
  /\ observers[o].records # <<>>
  /\ Len(observers') = Len(observers)
  /\ observers'[o].records = <<>>

\* C35: only node insertions trigger the observer.  An attribute change or
\* a text change after the initialization queues no record; a removal
\* queues a record that names no added node; and a delivery classifies,
\* replaces and mounts for added nodes only: the elements it replaces or
\* reports are among the added nodes of the records delivered, and a
\* delivery of records without added nodes changes nothing in the document.
C35_OnlyInsertionsTrigger ==
  [][/\ (edits' # edits /\ edits'[Len(edits')].type \in {"attributes", "characterData"})
          => /\ observers' = observers
             /\ kids' = kids
             /\ WatcherEffects' = WatcherEffects
     /\ (edits' # edits /\ edits'[Len(edits')].type = "removal")
          => /\ \A o \in 1..Len(observers) :
                  LET new == SubSeq(observers'[o].records,
                                    Len(observers[o].records) + 1,
                                    Len(observers'[o].records))
                  IN AddedIn(new) = {}
             /\ WatcherEffects' = WatcherEffects
     /\ \A o \in 1..NumContexts :
          Delivers(o) =>
            /\ \A r \in (Len(replaced) + 1)..Len(replaced') :
                 replaced'[r].element \in AddedIn(observers[o].records)
            /\ \A e \in (Len(errors) + 1)..Len(errors') :
                 errors'[e] \in AddedIn(observers[o].records)
            /\ (Len(mounts') - Len(mounts)) + (Len(uncaught') - Len(uncaught))
                 <= Len(replaced') - Len(replaced)
            /\ AddedIn(observers[o].records) = {}
                 => (WatcherEffects' = WatcherEffects /\ kids' = kids)
     /\ WatcherEffects' # WatcherEffects
          => (inits' # inits \/ \E o \in 1..NumContexts : Delivers(o))]_vars

\* C35 witness: a script inserted object 6, which the observer reported and
\* left in the document; the script then removed it, the observer was given
\* the record of the removal, and nothing was classified, replaced or
\* mounted for it.
C35_Witness ==
  /\ inserted = <<6>>
  /\ errors = <<6>>
  /\ edits = <<[type |-> "removal", target |-> 6]>>
  /\ ~InDocument(kids, 6)
  /\ NoPendingRecords
  /\ replaced = <<>>
  /\ mounts = <<>>

====
